---------------------------- MODULE Spec2Model ----------------------------
(***************************************************************************)
(* A model of pydf: generate_pdf / get_version / get_help of               *)
(* src/pydf/wkhtmltopdf.py and the aiohttp handler of src/docker.py.       *)
(*                                                                         *)
(* Python str and bytes values are TLA+ strings (all modelled text is      *)
(* ASCII, where str.encode() keeps every character as one byte).  Python   *)
(* option values are tagged records so that Python's ==, `is` and str()    *)
(* can be told apart.                                                      *)
(***************************************************************************)
EXTENDS Integers, Sequences, FiniteSets, TLC

(***************************************************************************)
(* Bounds of the model.                                                    *)
(***************************************************************************)
MaxSrcLen == 4

MaxSet == 1

MaxExtras == 2

MaxLines == 4

MaxPrefix == 4

NReq == 3

(***************************************************************************)
(* Text helpers.                                                           *)
(***************************************************************************)
Char(s, i) == SubSeq(s, i, i)

StartsWith(s, p) == Len(s) >= Len(p) /\ SubSeq(s, 1, Len(p)) = p

\* s[:n]
Prefix(s, n) == SubSeq(s, 1, IF Len(s) < n THEN Len(s) ELSE n)

Contains(s, sub) ==
    \E i \in 1..(Len(s) + 1) : i + Len(sub) - 1 <= Len(s) /\ SubSeq(s, i, i + Len(sub) - 1) = sub

\* the characters str.lstrip() / bytes.strip() remove by default (ASCII part)
Whitespace == {" ", "\t", "\n", "\r", "\f"}

RECURSIVE LStripChars(_, _)
LStripChars(s, chars) ==
    IF Len(s) > 0 /\ Char(s, 1) \in chars THEN LStripChars(Tail(s), chars) ELSE s

RECURSIVE RStripChars(_, _)
RStripChars(s, chars) ==
    IF Len(s) > 0 /\ Char(s, Len(s)) \in chars
    THEN RStripChars(SubSeq(s, 1, Len(s) - 1), chars)
    ELSE s

LStrip(s) == LStripChars(s, Whitespace)

Strip(s) == RStripChars(LStripChars(s, Whitespace), Whitespace)

\* str.strip(' \n')
StripSpaceNl(s) == RStripChars(LStripChars(s, {" ", "\n"}), {" ", "\n"})

\* name.replace('_', '-')
RECURSIVE ReplaceUnderscore(_)
ReplaceUnderscore(s) ==
    IF Len(s) = 0 THEN ""
    ELSE (IF Char(s, 1) = "_" THEN "-" ELSE Char(s, 1)) \o ReplaceUnderscore(Tail(s))

\* '\n'.join(lines)
RECURSIVE JoinLines(_)
JoinLines(lines) ==
    IF Len(lines) = 0 THEN ""
    ELSE IF Len(lines) = 1 THEN lines[1]
    ELSE lines[1] \o "\n" \o JoinLines(Tail(lines))

(***************************************************************************)
(* Python values: None, bool, int, str.                                    *)
(***************************************************************************)
PyNone == [t |-> "none", n |-> 0, s |-> ""]

PyFalse == [t |-> "bool", n |-> 0, s |-> ""]

PyTrue == [t |-> "bool", n |-> 1, s |-> ""]

PyInt(k) == [t |-> "int", n |-> k, s |-> ""]

PyStr(x) == [t |-> "str", n |-> 0, s |-> x]

\* Python ==: bool is a subclass of int and compares (and hashes) by number
PyEq(a, b) ==
    \/ a.t = "none" /\ b.t = "none"
    \/ a.t \in {"bool", "int"} /\ b.t \in {"bool", "int"} /\ a.n = b.n
    \/ a.t = "str" /\ b.t = "str" /\ a.s = b.s

\* `value is True`: identity with the True singleton
IsTrue(v) == v.t = "bool" /\ v.n = 1

Digit(d) == SubSeq("0123456789", d + 1, d + 1)

RECURSIVE NatStr(_)
NatStr(k) == IF k < 10 THEN Digit(k) ELSE NatStr(k \div 10) \o Digit(k % 10)

\* str(value)
Str(v) ==
    CASE v.t = "none" -> "None"
      [] v.t = "bool" -> (IF v.n = 1 THEN "True" ELSE "False")
      [] v.t = "int"  -> (IF v.n < 0 THEN "-" \o NatStr(0 - v.n) ELSE NatStr(v.n))
      [] v.t = "str"  -> v.s

\* bool(value), as used by `if value` in the metadata comprehension
Truthy(v) ==
    CASE v.t = "none" -> FALSE
      [] v.t = "bool" -> v.n = 1
      [] v.t = "int"  -> v.n # 0
      [] v.t = "str"  -> v.s # ""

(***************************************************************************)
(* The argument marshaller: lines 77-104 of generate_pdf.                  *)
(***************************************************************************)
\* the keyword parameters passed on the command line, in declaration order
OptionNames ==
    << "cache_dir", "grayscale", "lowquality", "margin_bottom", "margin_left",
       "margin_right", "margin_top", "orientation", "page_height", "page_width",
       "page_size", "image_dpi", "image_quality" >>

\* the defaults of the signature
OptionDefault(name) == IF name \in {"grayscale", "lowquality"} THEN PyFalse ELSE PyNone

\* py_args = dict(cache_dir=cache_dir, ...): an insertion-ordered dict
NamedArgs(o) == [i \in 1..Len(OptionNames) |-> <<OptionNames[i], o[OptionNames[i]]>>]

KeyIndex(d, k) == IF \E i \in 1..Len(d) : d[i][1] = k
                  THEN CHOOSE i \in 1..Len(d) : d[i][1] = k
                  ELSE 0

\* d[k] = v on an insertion-ordered dict
DictSet(d, k, v) ==
    IF KeyIndex(d, k) = 0 THEN Append(d, <<k, v>>)
    ELSE [d EXCEPT ![KeyIndex(d, k)] = <<k, v>>]

\* d.update(e)
RECURSIVE DictUpdate(_, _)
DictUpdate(d, e) ==
    IF Len(e) = 0 THEN d ELSE DictUpdate(DictSet(d, e[1][1], e[1][2]), Tail(e))

PyArgs(o, extra_kwargs) == DictUpdate(NamedArgs(o), extra_kwargs)

\* `value in {None, False}`: set membership is by hash and ==
InNoneFalse(value) == PyEq(value, PyNone) \/ PyEq(value, PyFalse)

ArgName(name) == "--" \o ReplaceUnderscore(name)

\* one iteration of the loop of lines 94-101: the tokens one item appends
ItemTokens(name, value) ==
    IF InNoneFalse(value) THEN << >>
    ELSE IF IsTrue(value) THEN << ArgName(name) >>
    ELSE << ArgName(name), Str(value) >>

\* the loop walking the dict from its last item to its first
RECURSIVE LoopTokensReversed(_)
LoopTokensReversed(d) ==
    IF Len(d) = 0 THEN << >> ELSE LoopTokensReversed(Tail(d)) \o ItemTokens(d[1][1], d[1][2])

\* the loop of lines 94-101 over py_args.items(), in the dict's order
RECURSIVE LoopTokens(_)
LoopTokens(d) ==
    IF Len(d) = 0 THEN << >> ELSE ItemTokens(d[1][1], d[1][2]) \o LoopTokens(Tail(d))

\* cmd_args after line 104
CmdArgs(d) == LoopTokens(d) \o << "-", "-" >>


(***************************************************************************)
(* The success policy: line 111 of generate_pdf.                           *)
(***************************************************************************)
PdfSignature == "%PDF"

\* the policy with the exit status alone
RenderFailedExitOnly(proc) == proc.returncode # 0

\* the policy looking for the signature anywhere in the output
RenderFailedSignatureAnywhere(proc) ==
    proc.returncode # 0 /\ ~Contains(proc.stdout, PdfSignature)

\* p.returncode != 0 and pdf_bytes[:4] != b'%PDF'
RenderFailed(proc) == proc.returncode # 0 /\ Prefix(proc.stdout, 4) # PdfSignature

(***************************************************************************)
(* The metadata patch: lines 115-125 of generate_pdf.                      *)
(***************************************************************************)
\* the list `fields`: PDF key, keyword parameter
MetaFields ==
    << <<"Title", "title">>, <<"Author", "author">>, <<"Subject", "subject">>,
       <<"Creator", "creator">>, <<"Producer", "producer">> >>

RECURSIVE MetaLinesFrom(_, _)
MetaLinesFrom(m, i) ==
    IF i > Len(MetaFields) THEN << >>
    ELSE (IF Truthy(m[MetaFields[i][2]])
          THEN << "/" \o MetaFields[i][1] \o " (" \o Str(m[MetaFields[i][2]]) \o ")" >>
          ELSE << >>) \o MetaLinesFrom(m, i + 1)

\* '\n'.join(f'/{name} ({value})' for name, value in fields if value)
Metadata(m) == JoinLines(MetaLinesFrom(m, 1))

At(s, i, lit) == i >= 1 /\ i + Len(lit) - 1 <= Len(s) /\ SubSeq(s, i, i + Len(lit) - 1) = lit

\* index of the first "\n" at or after j, Len(s) + 1 when there is none
RECURSIVE LineEnd(_, _)
LineEnd(s, j) ==
    IF j > Len(s) THEN Len(s) + 1
    ELSE IF Char(s, j) = "\n" THEN j
    ELSE LineEnd(s, j + 1)

\* The pattern b'/Title.*\n.*\n/Producer.*' tried at index i: "." matches every
\* byte but "\n", so each ".*" before a "\n" is the rest of its line and the last
\* one runs to the end of the /Producer line.  The index of the last matched
\* byte, 0 when the pattern does not match at i.
MatchEnd(s, i) ==
    IF ~At(s, i, "/Title") THEN 0
    ELSE LET e1 == LineEnd(s, i + 6)
             e2 == LineEnd(s, e1 + 1)
         IN  IF e1 <= Len(s) /\ e2 <= Len(s) /\ At(s, e2 + 1, "/Producer")
             THEN LineEnd(s, e2 + 10) - 1
             ELSE 0

Matches(s) == {i \in 1..Len(s) : MatchEnd(s, i) # 0}

\* start of the leftmost match (re.sub scans left to right), 0 when none
MatchStart(s) ==
    IF Matches(s) = {} THEN 0
    ELSE CHOOSE i \in Matches(s) : \A j \in Matches(s) : i <= j

AsciiAlnum ==
    {Char("abcdefghijklmnopqrstuvwxyzABCDEFGHIJKLMNOPQRSTUVWXYZ0123456789", i) : i \in 1..62}

\* re's replacement template (sre_parse.parse_template): what "\" + c stands for.
\* The control-byte escapes \a \b \v, octal escapes and \g<...> are not spelled
\* here; no modelled value contains them.
Escape(c) ==
    CASE c = "\\" -> [ok |-> TRUE, out |-> "\\"]
      [] c = "n"  -> [ok |-> TRUE, out |-> "\n"]
      [] c = "r"  -> [ok |-> TRUE, out |-> "\r"]
      [] c = "t"  -> [ok |-> TRUE, out |-> "\t"]
      [] c = "f"  -> [ok |-> TRUE, out |-> "\f"]
      \* "\1".."\9": invalid group reference (the pattern has no group);
      \* other ASCII letters: bad escape
      [] c \in AsciiAlnum \ {"n", "r", "t", "f"} -> [ok |-> FALSE, out |-> ""]
      [] OTHER -> [ok |-> TRUE, out |-> "\\" \o c]

RECURSIVE ExpandTemplate(_)
ExpandTemplate(t) ==
    IF Len(t) = 0 THEN [ok |-> TRUE, out |-> ""]
    ELSE IF Char(t, 1) # "\\"
    THEN LET r == ExpandTemplate(Tail(t))
         IN  [ok |-> r.ok, out |-> Char(t, 1) \o r.out]
    ELSE IF Len(t) = 1 THEN [ok |-> FALSE, out |-> ""]  \* bad escape (end of pattern)
    ELSE LET e == Escape(Char(t, 2))
             r == ExpandTemplate(SubSeq(t, 3, Len(t)))
         IN  [ok |-> e.ok /\ r.ok, out |-> e.out \o r.out]

\* how re.sub reads its repl argument
Template(t) == ExpandTemplate(t)

\* re.sub(b'/Title.*\n.*\n/Producer.*', repl, s, count=1): the template is
\* compiled before the search, so a bad template raises with or without a match
ReSub(repl, s) ==
    LET tpl == Template(repl)
        i   == MatchStart(s)
    IN  IF ~tpl.ok THEN [ok |-> FALSE, out |-> ""]
        ELSE IF i = 0 THEN [ok |-> TRUE, out |-> s]
        ELSE [ok |-> TRUE,
              out |-> SubSeq(s, 1, i - 1) \o tpl.out \o SubSeq(s, MatchEnd(s, i) + 1, Len(s))]

\* the substitution without the `if metadata` guard
PatchAlways(m, pdf_bytes) == ReSub(Metadata(m), pdf_bytes)

\* lines 122-125: the value generate_pdf returns, or the re.error it raises
Patch(m, pdf_bytes) ==
    IF Metadata(m) # "" THEN ReSub(Metadata(m), pdf_bytes)
    ELSE [ok |-> TRUE, out |-> pdf_bytes]

(***************************************************************************)
(* The accessors: lines 128-163.                                           *)
(***************************************************************************)
\* the literal imported from .version (line 5); its value is not part of
\* wkhtmltopdf.py
VERSION == "0.30"

\* str(WK_PATH), line 18
WK_PATH == "bin/wkhtmltopdf"

\* exceptions subprocess.run raises when the binary cannot be started
LaunchErrors == {"FileNotFoundError", "PermissionError"}

\* str(e) of the exceptions the accessors can meet
ErrorText(type) ==
    CASE type = "FileNotFoundError" -> "[Errno 2] No such file or directory: '" \o WK_PATH \o "'"
      [] type = "PermissionError"   -> "[Errno 13] Permission denied: '" \o WK_PATH \o "'"
      [] type = "UnicodeDecodeError" -> "'utf-8' codec can't decode byte 0xff in position 0: invalid start byte"

\* execute_wk(*args): subprocess.run either raises or returns a CompletedProcess
ExecuteWkResult(env) ==
    IF env.launch # "ok" THEN [ok |-> FALSE, type |-> env.launch, out |-> ""]
    ELSE [ok |-> TRUE, type |-> "", out |-> env.stdout]

\* _string_execute(*args): execute_wk(*args).stdout.decode().strip(' \n')
StringExecute(env) ==
    LET r == ExecuteWkResult(env)
    IN  IF ~r.ok THEN r
        ELSE IF ~env.utf8 THEN [ok |-> FALSE, type |-> "UnicodeDecodeError", out |-> ""]
        ELSE [ok |-> TRUE, type |-> "", out |-> StripSpaceNl(r.out)]

VersionFormat(wk_version) ==
    "pydf version: " \o VERSION \o "\nwkhtmltopdf version: " \o wk_version

\* get_version without its try/except
GetVersionUncaught(env) ==
    LET r == StringExecute(env)
    IN  IF r.ok THEN [kind |-> "return", value |-> VersionFormat(r.out), type |-> "", cmd |-> << >>]
        ELSE [kind |-> "raise", value |-> ErrorText(r.type), type |-> r.type, cmd |-> << >>]

\* get_version(): lines 138-143
GetVersionResult(env) ==
    LET r == StringExecute(env)
    IN  [kind |-> "return", type |-> "", cmd |-> << >>,
         value |-> VersionFormat(IF r.ok THEN r.out ELSE r.type \o ": " \o ErrorText(r.type))]

\* get_help() / get_extended_help(): lines 153, 163
GetHelpResult(env) ==
    LET r == StringExecute(env)
    IN  IF r.ok THEN [kind |-> "return", value |-> r.out, type |-> "", cmd |-> << >>]
        ELSE [kind |-> "raise", value |-> ErrorText(r.type), type |-> r.type, cmd |-> << >>]

AccessorFlag(f) ==
    CASE f = "get_version" -> "-V"
      [] f = "get_help" -> "-h"
      [] f = "get_extended_help" -> "-H"

(***************************************************************************)
(* State.                                                                  *)
(***************************************************************************)
VARIABLES
    op,            \* the function called: generate_pdf, get_version, ...
    pc,            \* where the call is
    source,        \* generate_pdf's source
    meta,          \* title, author, subject, creator, producer
    opts,          \* the named command-line keyword arguments
    extra_kwargs,  \* **extra_kwargs, in insertion order
    wk,            \* how the wkhtmltopdf binary behaves when run
    cmd_args,      \* generate_pdf's cmd_args
    wk_calls,      \* the wk_args and input of every execute_wk call so far
    p,             \* the CompletedProcess of line 106
    result,        \* what the call returned or raised
    rpc,           \* service: where each request's handler is
    rproc,         \* service: each request's renderer process
    loop_held      \* service: the request whose call holds the event loop thread

call_vars == <<op, pc, source, meta, opts, extra_kwargs, wk, cmd_args, wk_calls, p, result>>

service_vars == <<rpc, rproc, loop_held>>

vars == <<op, pc, source, meta, opts, extra_kwargs, wk, cmd_args, wk_calls, p, result,
          rpc, rproc, loop_held>>

Requests == 1..NReq

NoResult == [kind |-> "none", value |-> "", type |-> "", cmd |-> << >>]

NoProcess == [returncode |-> 0, stdout |-> "", stderr |-> ""]

ServiceIdle ==
    /\ rpc = [r \in Requests |-> "idle"]
    /\ rproc = [r \in Requests |-> "none"]
    /\ loop_held = 0

(***************************************************************************)
(* The calls and the renderer behaviours the model explores.               *)
(***************************************************************************)
RECURSIVE StringsUpTo(_, _)
StringsUpTo(alphabet, n) ==
    IF n = 0 THEN {""}
    ELSE LET S == StringsUpTo(alphabet, n - 1)
         IN  S \cup {s \o c : s \in S, c \in alphabet}

RECURSIVE SeqsUpTo(_, _)
SeqsUpTo(S, n) ==
    IF n = 0 THEN {<< >>}
    ELSE LET P == SeqsUpTo(S, n - 1)
         IN  P \cup {Append(q, x) : q \in P, x \in S}

OptionNameSet == {OptionNames[i] : i \in 1..Len(OptionNames)}

DefaultOpts == [name \in OptionNameSet |-> OptionDefault(name)]

NoMeta == [f \in {"title", "author", "subject", "creator", "producer"} |-> PyNone]

DefaultWk == [launch |-> "ok", returncode |-> 0, stdout |-> "%PDF-1.4\n", stderr |-> "", utf8 |-> TRUE]

DefaultCall ==
    [op |-> "generate_pdf", source |-> "<p>", meta |-> NoMeta, opts |-> DefaultOpts,
     extra_kwargs |-> << >>, wk |-> DefaultWk]

OptionValues == {PyNone, PyFalse, PyTrue, PyInt(0), PyInt(1), PyInt(94), PyStr("A4")}

\* option records that differ from the defaults in at most k places
RECURSIVE OptsWithin(_)
OptsWithin(k) ==
    IF k = 0 THEN {DefaultOpts}
    ELSE LET P == OptsWithin(k - 1)
         IN  P \cup {[o EXCEPT ![name] = v] : o \in P, name \in OptionNameSet, v \in OptionValues}

\* every option given, each kind of value
FullOpts ==
    [name \in OptionNameSet |->
        CASE name \in {"grayscale", "lowquality"} -> PyTrue
          [] name \in {"image_dpi", "image_quality"} -> PyInt(94)
          [] OTHER -> PyStr(name)]

ExtraNames == {"quiet", "no_outline", "zoom"}

DistinctKeys(e) == \A i, j \in 1..Len(e) : i # j => e[i][1] # e[j][1]

ExtraKwargs == {e \in SeqsUpTo(ExtraNames \X OptionValues, MaxExtras) : DistinctKeys(e)}

SourceAlphabet == {" ", "h", "t", "p", "w", "<"}

SourceCalls == {[DefaultCall EXCEPT !.source = s] : s \in StringsUpTo(SourceAlphabet, MaxSrcLen)}

OptionCalls == {[DefaultCall EXCEPT !.opts = o] : o \in OptsWithin(MaxSet) \cup {FullOpts}}

ExtraCalls ==
    {[DefaultCall EXCEPT !.opts = o, !.extra_kwargs = e] :
        o \in {DefaultOpts, FullOpts}, e \in ExtraKwargs}

\* renderer output: lines of a PDF trailer, with the markers in and out of place
LineKinds == {"%PDF", "/Title (x)", "a/Title (y)", "/Creator (c)", "/Producer (q)", ""}

Docs == {JoinLines(l) : l \in SeqsUpTo(LineKinds, MaxLines)}

TwoSpans ==
    "%PDF\n/Title (x)\n/Creator (c)\n/Producer (q)\n/Title (y)\n/Creator (d)\n/Producer (r)\n"

FixedDocs == {"%PDF\n<< /Title (x)\n/Creator (c)\n/Producer (q) >>\nendobj", TwoSpans, "%PDF\n/Title (x)\n"}

SomeMeta == {NoMeta, [NoMeta EXCEPT !.title = PyStr("T"), !.producer = PyStr("P")]}

MetaValues == {PyNone, PyStr(""), PyStr("T"), PyStr("a\\\\b"), PyStr("\\1")}

AllMeta == [{"title", "author", "subject", "creator", "producer"} -> MetaValues]

PatchCalls ==
    {[DefaultCall EXCEPT !.meta = m, !.wk.stdout = d, !.wk.returncode = rc] :
        m \in SomeMeta, d \in Docs, rc \in {0, 1}}

MetaCalls ==
    {[DefaultCall EXCEPT !.meta = m, !.wk.stdout = d] : m \in AllMeta, d \in FixedDocs}

PolicyCalls ==
    {[DefaultCall EXCEPT !.wk.stdout = d, !.wk.returncode = rc, !.wk.stderr = e] :
        d \in StringsUpTo({"%", "P", "D", "F"}, MaxPrefix) \cup {"%PDF-1.4\n", "x%PDF"},
        rc \in {0, 1, 2, -9},
        e \in {"", " Error: load failed \n", "QXcbConnection"}}

Behaviours ==
    {[DefaultWk EXCEPT !.launch = l] : l \in LaunchErrors}
    \cup {[DefaultWk EXCEPT !.stdout = d, !.returncode = rc, !.utf8 = u] :
            d \in {"wkhtmltopdf 0.12.4 (with patched qt)\n", " \n", ""}, rc \in {0, 1}, u \in BOOLEAN}

FailingCalls == {[DefaultCall EXCEPT !.wk = b, !.meta = m] : b \in Behaviours, m \in SomeMeta}

AccessorCalls ==
    {[DefaultCall EXCEPT !.op = f, !.source = "", !.wk = b] :
        f \in {"get_version", "get_help", "get_extended_help"}, b \in Behaviours}

InitCall(c) ==
    /\ op = c.op
    /\ pc = "call"
    /\ source = c.source
    /\ meta = c.meta
    /\ opts = c.opts
    /\ extra_kwargs = c.extra_kwargs
    /\ wk = c.wk
    /\ cmd_args = << >>
    /\ wk_calls = << >>
    /\ p = NoProcess
    /\ result = NoResult

Init ==
    /\ \/ \E c \in SourceCalls : InitCall(c)
       \/ \E c \in OptionCalls : InitCall(c)
       \/ \E c \in ExtraCalls : InitCall(c)
       \/ \E c \in PatchCalls : InitCall(c)
       \/ \E c \in MetaCalls : InitCall(c)
       \/ \E c \in PolicyCalls : InitCall(c)
       \/ \E c \in FailingCalls : InitCall(c)
       \/ \E c \in AccessorCalls : InitCall(c)
    /\ ServiceIdle

(***************************************************************************)
(* generate_pdf, step by step.                                             *)
(***************************************************************************)
\* the test without lstrip()
LooksLikeUrlNoStrip(src) == StartsWith(src, "http") \/ StartsWith(src, "www")

\* source.lstrip().startswith(('http', 'www')), line 74
LooksLikeUrl(src) == StartsWith(LStrip(src), "http") \/ StartsWith(LStrip(src), "www")

Raise(type, value, cmd) == [kind |-> "raise", value |-> value, type |-> type, cmd |-> cmd]

Return(value) == [kind |-> "return", value |-> value, type |-> "", cmd |-> << >>]

\* lines 74-75
RejectUrl ==
    /\ op = "generate_pdf" /\ pc = "call"
    /\ LooksLikeUrl(source)
    /\ result' = Raise("ValueError", "pdf generation from urls is not supported", << >>)
    /\ pc' = "raised"
    /\ UNCHANGED <<op, source, meta, opts, extra_kwargs, wk, cmd_args, wk_calls, p>>
    /\ UNCHANGED service_vars

\* lines 77-104
BuildArgs ==
    /\ op = "generate_pdf" /\ pc = "call"
    /\ ~LooksLikeUrl(source)
    /\ cmd_args' = CmdArgs(PyArgs(opts, extra_kwargs))
    /\ pc' = "exec"
    /\ UNCHANGED <<op, source, meta, opts, extra_kwargs, wk, wk_calls, p, result>>
    /\ UNCHANGED service_vars

\* line 106 when subprocess.run cannot start the binary: the exception leaves
\* generate_pdf
ExecuteWkRaises ==
    /\ op = "generate_pdf" /\ pc = "exec"
    /\ wk.launch # "ok"
    /\ wk_calls' = Append(wk_calls, [wk_args |-> <<WK_PATH>> \o cmd_args, input |-> source])
    /\ result' = Raise(wk.launch, ErrorText(wk.launch), << >>)
    /\ pc' = "raised"
    /\ UNCHANGED <<op, source, meta, opts, extra_kwargs, wk, cmd_args, p>>
    /\ UNCHANGED service_vars

\* lines 106-107: the process runs to its end, p is what it left
ExecuteWk ==
    /\ op = "generate_pdf" /\ pc = "exec"
    /\ wk.launch = "ok"
    /\ wk_calls' = Append(wk_calls, [wk_args |-> <<WK_PATH>> \o cmd_args, input |-> source])
    /\ p' = [returncode |-> wk.returncode, stdout |-> wk.stdout, stderr |-> wk.stderr]
    /\ pc' = "check"
    /\ UNCHANGED <<op, source, meta, opts, extra_kwargs, wk, cmd_args, result>>
    /\ UNCHANGED service_vars

\* lines 111-113
RaiseRenderError ==
    /\ op = "generate_pdf" /\ pc = "check"
    /\ RenderFailed(p)
    /\ result' = Raise("RuntimeError", Strip(p.stderr), cmd_args)
    /\ pc' = "raised"
    /\ UNCHANGED <<op, source, meta, opts, extra_kwargs, wk, cmd_args, wk_calls, p>>
    /\ UNCHANGED service_vars

\* lines 115-125
PatchMetadata ==
    /\ op = "generate_pdf" /\ pc = "check"
    /\ ~RenderFailed(p)
    /\ LET r == Patch(meta, p.stdout)
       IN  /\ result' = IF r.ok THEN Return(r.out) ELSE Raise("re.error", "", << >>)
           /\ pc' = IF r.ok THEN "returned" ELSE "raised"
    /\ UNCHANGED <<op, source, meta, opts, extra_kwargs, wk, cmd_args, wk_calls, p>>
    /\ UNCHANGED service_vars

\* get_version(), lines 132-143
GetVersion ==
    /\ op = "get_version" /\ pc = "call"
    /\ wk_calls' = Append(wk_calls, [wk_args |-> <<WK_PATH, AccessorFlag(op)>>, input |-> ""])
    /\ result' = GetVersionResult(wk)
    /\ pc' = IF result'.kind = "return" THEN "returned" ELSE "raised"
    /\ UNCHANGED <<op, source, meta, opts, extra_kwargs, wk, cmd_args, p>>
    /\ UNCHANGED service_vars

\* get_help() and get_extended_help(), lines 146-163
GetHelp ==
    /\ op \in {"get_help", "get_extended_help"} /\ pc = "call"
    /\ wk_calls' = Append(wk_calls, [wk_args |-> <<WK_PATH, AccessorFlag(op)>>, input |-> ""])
    /\ result' = GetHelpResult(wk)
    /\ pc' = IF result'.kind = "return" THEN "returned" ELSE "raised"
    /\ UNCHANGED <<op, source, meta, opts, extra_kwargs, wk, cmd_args, p>>
    /\ UNCHANGED service_vars

Next ==
    \/ RejectUrl
    \/ BuildArgs
    \/ ExecuteWkRaises
    \/ ExecuteWk
    \/ RaiseRenderError
    \/ PatchMetadata
    \/ GetVersion
    \/ GetHelp

Spec == Init /\ [][Next]_vars

(***************************************************************************)
(* The service: the generate handler of docker.py on aiohttp's event loop. *)
(* Handlers are coroutines of one loop thread: a step of a handler runs    *)
(* only while no call holds that thread.                                   *)
(***************************************************************************)
\* AsyncPydf.generate_pdf awaited: the renderer is started and the coroutine
\* suspends until it ends, the loop thread stays free
AsyncGeneratePdf(r, b) ==
    /\ rproc' = [rproc EXCEPT ![r] = b]
    /\ rpc' = [rpc EXCEPT ![r] = "awaiting"]
    /\ loop_held' = loop_held

\* generate_pdf of wkhtmltopdf.py called on the loop thread instead:
\* subprocess.run (line 19) keeps the calling thread until the process ends
RenderCallBlocking(r, b) ==
    /\ rproc' = [rproc EXCEPT ![r] = b]
    /\ rpc' = [rpc EXCEPT ![r] = "awaiting"]
    /\ loop_held' = r

\* docker.py line 29: await app['apydf'].generate_pdf(data.decode())
RenderCall(r, b) == AsyncGeneratePdf(r, b)

\* a request reaches the server: aiohttp starts a handler task for it
Arrive(r) ==
    /\ rpc[r] = "idle"
    /\ rpc' = [rpc EXCEPT ![r] = "pending"]
    /\ UNCHANGED <<rproc, loop_held>>
    /\ UNCHANGED call_vars

\* docker.py lines 27-29: read the body, start the render; the renderer started
\* is one that ends ("running") or one that never does ("hung")
generate(r) ==
    /\ rpc[r] = "pending"
    /\ loop_held = 0
    /\ \E b \in {"running", "hung"} : RenderCall(r, b)
    /\ UNCHANGED call_vars

\* the renderer process of request r ends, with or without a PDF
ProcessExit(r) ==
    /\ rproc[r] = "running"
    /\ \E e \in {"exited_pdf", "exited_error"} : rproc' = [rproc EXCEPT ![r] = e]
    /\ UNCHANGED <<rpc, loop_held>>
    /\ UNCHANGED call_vars

\* docker.py line 30 (or the RuntimeError leaving the handler): the call of
\* line 29 is over and the handler answers
Respond(r) ==
    /\ rpc[r] = "awaiting"
    /\ rproc[r] \in {"exited_pdf", "exited_error"}
    /\ loop_held \in {0, r}
    /\ rpc' = [rpc EXCEPT ![r] = IF rproc[r] = "exited_pdf" THEN "responded" ELSE "failed"]
    /\ loop_held' = 0
    /\ UNCHANGED rproc
    /\ UNCHANGED call_vars

NoCall ==
    /\ op = "none"
    /\ pc = "idle"
    /\ source = ""
    /\ meta = NoMeta
    /\ opts = DefaultOpts
    /\ extra_kwargs = << >>
    /\ wk = DefaultWk
    /\ cmd_args = << >>
    /\ wk_calls = << >>
    /\ p = NoProcess
    /\ result = NoResult

ServiceInit == NoCall /\ ServiceIdle

ServiceNext == \E r \in Requests : Arrive(r) \/ generate(r) \/ ProcessExit(r) \/ Respond(r)

\* the loop runs every ready handler step in turn, and a process that is not
\* hung ends
ServiceFairness ==
    \A r \in Requests :
        WF_vars(generate(r)) /\ WF_vars(ProcessExit(r)) /\ WF_vars(Respond(r))

ServiceSpec == ServiceInit /\ [][ServiceNext]_vars /\ ServiceFairness

(***************************************************************************)
(* Properties.                                                             *)
(***************************************************************************)
Done == pc \in {"returned", "raised"}

\* generate_pdf has run the renderer and is past the check of line 111
Executed == op = "generate_pdf" /\ Done /\ Len(wk_calls) > 0 /\ wk.launch = "ok"

\* generate_pdf is past line 104: cmd_args is built
Marshalled ==
    /\ op = "generate_pdf"
    /\ pc \in {"exec", "check", "returned"} \/ (pc = "raised" /\ result.type # "ValueError")

HasSignature(bytes) == Len(bytes) >= 4 /\ SubSeq(bytes, 1, 4) = "%PDF"

NoFieldSet == \A f \in DOMAIN meta : meta[f] = PyNone \/ meta[f] = PyStr("")

\* C1: generate_pdf raises the render error (RuntimeError) exactly when the exit
\* status is non-zero and the first 4 bytes of stdout are not %PDF; the error
\* carries cmd_args and the stripped stderr; in every other case the check of
\* line 111 lets the call go on, and with no metadata field set the captured
\* stdout is returned.
C1_SuccessPolicy ==
    Executed =>
        /\ (result.kind = "raise" /\ result.type = "RuntimeError")
               <=> (p.returncode # 0 /\ ~HasSignature(p.stdout))
        /\ result.type = "RuntimeError" =>
               /\ result.cmd = cmd_args
               /\ result.value = Strip(p.stderr)
               /\ wk_calls[1].wk_args = <<WK_PATH>> \o result.cmd
        /\ (NoFieldSet /\ (p.returncode = 0 \/ HasSignature(p.stdout))) =>
               (result.kind = "return" /\ result.value = p.stdout)

\* a non-zero exit status with %PDF output, taken as success
C1_Witness ==
    /\ Executed /\ pc = "returned"
    /\ p.returncode # 0 /\ HasSignature(p.stdout)
    /\ result.value = p.stdout

\* C2 as stated: whenever generate_pdf returns bytes they begin with %PDF.
C2_ReturnedBeginsWithSignature ==
    (op = "generate_pdf" /\ pc = "returned") => HasSignature(result.value)

\* C2 amended: whenever generate_pdf returns bytes after a non-zero exit status,
\* they begin with %PDF, patched or not.
C2_NonZeroExitReturnsSignature ==
    (op = "generate_pdf" /\ pc = "returned" /\ p.returncode # 0) => HasSignature(result.value)

\* a non-zero exit status, a patched document
C2_Witness ==
    /\ op = "generate_pdf" /\ pc = "returned" /\ p.returncode # 0
    /\ ~NoFieldSet /\ result.value # p.stdout

\* the source, after its leading whitespace, begins with "http" or "www"
BeginsLikeUrl ==
    \E k \in 0..Len(source) :
        /\ \A i \in 1..k : Char(source, i) \in Whitespace
        /\ k < Len(source) => Char(source, k + 1) \notin Whitespace
        /\ At(source, k + 1, "http") \/ At(source, k + 1, "www")

GivenItems == NamedArgs(opts) \o extra_kwargs

FlagOf(name) == "--" \o ReplaceUnderscore(name)

Positions(token) == {i \in 1..Len(cmd_args) : cmd_args[i] = token}

\* the number of tokens the documentation gives a value: none for None and
\* False, one for True, two for anything else
DocumentedTokens(value) ==
    IF value = PyNone \/ value = PyFalse THEN 0
    ELSE IF value = PyTrue THEN 1
    ELSE 2

RECURSIVE SumDocumentedTokens(_)
SumDocumentedTokens(d) ==
    IF Len(d) = 0 THEN 0 ELSE DocumentedTokens(d[1][2]) + SumDocumentedTokens(Tail(d))

\* C4: for every named and extra option: None or False gives no token, True gives
\* the flag token alone, any other value (0 and 1 included) gives the flag token
\* followed by str(value).
C4_PerOptionTokens ==
    Marshalled =>
        /\ \A k \in 1..Len(GivenItems) :
             LET name  == GivenItems[k][1]
                 value == GivenItems[k][2]
                 at    == Positions(FlagOf(name))
             IN  IF DocumentedTokens(value) = 0 THEN at = {}
                 ELSE /\ Cardinality(at) = 1
                      /\ DocumentedTokens(value) = 2 =>
                             \A i \in at : i < Len(cmd_args) /\ cmd_args[i + 1] = Str(value)
        /\ Len(cmd_args) = SumDocumentedTokens(GivenItems) + 2

\* where the claim's span lies in the renderer output: from the first /Title
\* marker to the end of the line of the next /Producer marker
FirstTitle(s) ==
    IF \E i \in 1..Len(s) : At(s, i, "/Title")
    THEN CHOOSE i \in 1..Len(s) : At(s, i, "/Title") /\ \A j \in 1..(i - 1) : ~At(s, j, "/Title")
    ELSE 0

NextProducer(s, i) ==
    IF \E j \in (i + 6)..Len(s) : At(s, j, "/Producer")
    THEN CHOOSE j \in (i + 6)..Len(s) :
            At(s, j, "/Producer") /\ \A k \in (i + 6)..(j - 1) : ~At(s, k, "/Producer")
    ELSE 0

\* the span is there and is the three-line shape wkhtmltopdf writes: the /Title
\* line, one line, the /Producer line
SpanIsThere(s) ==
    /\ FirstTitle(s) # 0
    /\ NextProducer(s, FirstTitle(s)) # 0
    /\ LET i == FirstTitle(s)
           j == NextProducer(s, i)
           between == {k \in i..(j - 1) : Char(s, k) = "\n"}
       IN  Cardinality(between) = 2 /\ Char(s, j - 1) = "\n"

SpanEnd(s) == LineEnd(s, NextProducer(s, FirstTitle(s))) - 1

\* C5: with a metadata field set and the span in the output, generate_pdf returns
\* the bytes before the span, the metadata block, the bytes after the span.
C5_PatchResult ==
    (Executed /\ ~RenderFailed(p) /\ ~NoFieldSet /\ SpanIsThere(p.stdout)) =>
        /\ result.kind = "return"
        /\ result.value =
               SubSeq(p.stdout, 1, FirstTitle(p.stdout) - 1)
                   \o Metadata(meta)
                   \o SubSeq(p.stdout, SpanEnd(p.stdout) + 1, Len(p.stdout))

\* the pattern's three lines somewhere in the output, said without the search:
\* "/Title" and the rest of its line, one whole line, a line beginning "/Producer"
HasPatternSpan(s) ==
    \E i \in 1..Len(s) :
        /\ At(s, i, "/Title")
        /\ \E e1 \in (i + 6)..Len(s) :
              /\ Char(s, e1) = "\n"
              /\ \E e2 \in (e1 + 1)..Len(s) :
                    /\ Char(s, e2) = "\n"
                    /\ At(s, e2 + 1, "/Producer")
                    /\ \A k \in i..(e2 - 1) : Char(s, k) = "\n" => k = e1

\* C6: with no metadata field set, or with no /Title ... /Producer span in the
\* renderer output, the bytes generate_pdf returns are the captured stdout.
C6_PatchNoOp ==
    (op = "generate_pdf" /\ pc = "returned" /\ (NoFieldSet \/ ~HasPatternSpan(p.stdout))) =>
        result.value = p.stdout

\* fields set, both markers in the output, but not as the pattern's three lines
C6_Witness ==
    /\ op = "generate_pdf" /\ pc = "returned"
    /\ ~NoFieldSet /\ ~HasPatternSpan(p.stdout)
    /\ Contains(p.stdout, "/Title") /\ Contains(p.stdout, "/Producer")
    /\ result.value = p.stdout

IsFlag(token) == Len(token) > 2 /\ SubSeq(token, 1, 2) = "--"

\* C7: the flag tokens of cmd_args are those of the options given, in the order
\* the named options are declared and then the extras in insertion order; the list
\* ends with "-" "-" with no option token behind them, and is what execute_wk
\* passes on.
C7_CanonicalOrder ==
    /\ (op = "generate_pdf" /\ pc = "exec") =>
          /\ Len(cmd_args) >= 2
          /\ cmd_args[Len(cmd_args) - 1] = "-" /\ cmd_args[Len(cmd_args)] = "-"
          /\ \A i \in 1..Len(cmd_args) : IsFlag(cmd_args[i]) => i <= Len(cmd_args) - 2
          /\ LET flags == SelectSeq(cmd_args, IsFlag)
                 given == [k \in 1..Len(GivenItems) |-> FlagOf(GivenItems[k][1])]
                 OnCommandLine(f) == \E i \in 1..Len(flags) : flags[i] = f
             IN  flags = SelectSeq(given, OnCommandLine)
    /\ (op = "generate_pdf" /\ wk_calls # << >>) =>
          wk_calls[1].wk_args = <<WK_PATH>> \o cmd_args

\* every named option and two extras on the command line
C7_Witness ==
    /\ op = "generate_pdf" /\ pc = "exec"
    /\ opts = FullOpts /\ Len(extra_kwargs) = 2
    /\ \A k \in 1..Len(GivenItems) : Positions(FlagOf(GivenItems[k][1])) # {}

\* C9: the metadata step never raises.
C9_PatchNeverRaises ==
    (op = "generate_pdf" /\ Len(wk_calls) > 0 /\ wk.launch = "ok") => result.type # "re.error"

\* C10: get_version always returns, never raises; the string holds VERSION, and
\* when the binary could not be run or its output not decoded, the class name and
\* message of the exception stand where the wkhtmltopdf version would.
C10_GetVersionNeverRaises ==
    (op = "get_version" /\ pc # "call") =>
        /\ pc = "returned" /\ result.kind = "return"
        /\ Contains(result.value, VERSION)
        /\ StartsWith(result.value, "pydf version: ")
        /\ wk.launch # "ok" => Contains(result.value, "wkhtmltopdf version: " \o wk.launch \o ": ")
        /\ (wk.launch = "ok" /\ ~wk.utf8) =>
               Contains(result.value, "wkhtmltopdf version: UnicodeDecodeError: ")
        /\ wk_calls = << [wk_args |-> <<WK_PATH, "-V">>, input |-> ""] >>

\* the binary is absent and get_version has returned
C10_Witness ==
    /\ op = "get_version" /\ pc = "returned"
    /\ wk.launch = "FileNotFoundError"

=============================================================================
